---------------------------- MODULE Spec2Model ----------------------------
(***************************************************************************)
(* A model of relapack/src/dgemmt.c: RELAPACK_dgemmt, its recursive kernel *)
(* RELAPACK_dgemmt_rec and its unblocked kernel RELAPACK_dgemmt_rec2 (the  *)
(* #else branch, HAVE_XGEMMT = 0).                                         *)
(*                                                                         *)
(* Matrices are column-major arrays indexed from 0; a pointer is an offset *)
(* into its array, so the pointer arithmetic of the source is integer      *)
(* arithmetic on offsets.  Matrix entries and the scalars are integers, on *)
(* which the arithmetic of the kernels is exact.  The call tree is run     *)
(* depth first from an explicit stack of pending calls, one step per call  *)
(* of a kernel or of a BLAS primitive.                                     *)
(***************************************************************************)
EXTENDS Integers, Sequences, FiniteSets

VARIABLES
    uplo, transA, transB,   \* the char arguments, as the caller gave them
    n, k,                   \* *n, *k
    alpha, beta,            \* *alpha, *beta
    ldA, ldB, ldC,          \* *ldA, *ldB, *ldC
    A, B,                   \* the caller's read-only arrays
    C,                      \* the caller's result array
    C0,                     \* C as it was when the call was made
    CROSSOVER_DGEMMT,       \* the configured recursion threshold
    blasmode,               \* what the BLAS linked does in dgemv on a zero dimension:
                            \* 0: y := beta*y, 1: returns at once leaving y
    pc,                     \* "call": not yet entered, "rec": in the kernels, "ret": returned
    cleanuplo, cleantransA, cleantransB,  \* locals of RELAPACK_dgemmt
    stack,                  \* pending kernel and dgemm calls, next one first
    calls,                  \* the BLAS calls issued so far, in order
    xerbla                  \* the xerbla calls issued so far, in order

vars == <<uplo, transA, transB, n, k, alpha, beta, ldA, ldB, ldC, A, B, C, C0,
          CROSSOVER_DGEMMT, blasmode, pc, cleanuplo, cleantransA, cleantransB, stack,
          calls, xerbla>>

inputs == <<uplo, transA, transB, n, k, alpha, beta, ldA, ldB, ldC, A, B, C0,
            CROSSOVER_DGEMMT, blasmode>>

-----------------------------------------------------------------------------
(* Bounds of the model *)

MaxN == 4
MaxK == 2

\* the largest order the split point is examined on
MaxOrder == 64

MaxDim == IF MaxN > MaxK THEN MaxN ELSE MaxK

\* the arrays hold a matrix of order MaxDim with a leading dimension of MaxDim + 1
Cap == (MaxDim + 1) * MaxDim

UploChars  == {"L", "u", "X"}
TransAChars == {"n", "T", "C"}
TransBChars == {"N", "t", "X"}
Alphas == {1, 2}
Betas == {0, 3}
Crossovers == {0, 2, 4, MaxN + 1}
BlasModes == {0, 1}

-----------------------------------------------------------------------------
(* relapack.h and the LAPACK auxiliaries *)

MAX(a, b) == IF a > b THEN a ELSE b

Upper(ch) ==
    CASE ch = "l" -> "L"
      [] ch = "u" -> "U"
      [] ch = "n" -> "N"
      [] ch = "t" -> "T"
      [] ch = "c" -> "C"
      [] OTHER -> ch

\* LAPACK's lsame: equality of two characters regardless of case
lsame(ca, cb) == Upper(ca) = Upper(cb)

\* the split point of the double-precision kernels
DREC_SPLIT(m) == IF m >= 16 THEN ((m + 8) \div 16) * 8 ELSE m \div 2

-----------------------------------------------------------------------------
(* The BLAS primitives *)

\* the value at offset p of array M; no call the kernels issue on valid
\* arguments has an operand outside the arrays (C9_ViewsInExtents)
Load(M, p) == IF p \in DOMAIN M THEN M[p] ELSE 0

RECURSIVE SumTo(_, _)
\* term[0] + ... + term[len - 1]
SumTo(term, len) ==
    IF len <= 0 THEN 0 ELSE SumTo(term, len - 1) + term[len - 1]

\* y := alpha*op(A)*x + beta*y, A an m by nn matrix at offset a of A with
\* leading dimension ldA, x at offset b of B with increment incx, y at
\* offset c of Cm with increment 1.  What the routine does when m or nn is
\* 0 depends on the BLAS linked: with blasmode 0 it is the stated operation
\* for every size, so that a vector x of length 0 leaves y := beta*y; with
\* blasmode 1 it returns at once and leaves y as it is.
dgemv(trans, m, nn, a, b, incx, c, Cm) ==
    IF blasmode = 1 /\ (m = 0 \/ nn = 0) THEN Cm ELSE
    LET leny == IF trans = "N" THEN m ELSE nn
        lenx == IF trans = "N" THEN nn ELSE m
        elem(j, l) == IF trans = "N" THEN Load(A, a + j + l * ldA)
                                     ELSE Load(A, a + l + j * ldA)
        dot(j) == SumTo([l \in 0..(lenx - 1) |-> elem(j, l) * Load(B, b + l * incx)], lenx)
    IN  [p \in DOMAIN Cm |->
            IF p >= c /\ p < c + leny
            THEN alpha * dot(p - c) + beta * Cm[p]
            ELSE Cm[p]]

\* C := alpha*op(A)*op(B) + beta*C, C an m by nn matrix at offset c of Cm,
\* op(A) m by kk at offset a of A, op(B) kk by nn at offset b of B; with
\* kk = 0 it leaves C := beta*C
dgemm(ta, tb, m, nn, kk, a, b, c, Cm) ==
    LET opA(r, l) == IF ta = "N" THEN Load(A, a + r + l * ldA)
                                 ELSE Load(A, a + l + r * ldA)
        opB(l, q) == IF tb = "N" THEN Load(B, b + l + q * ldB)
                                 ELSE Load(B, b + q + l * ldB)
        dot(r, q) == SumTo([l \in 0..(kk - 1) |-> opA(r, l) * opB(l, q)], kk)
        row(p) == (p - c) % ldC
        col(p) == (p - c) \div ldC
    IN  [p \in DOMAIN Cm |->
            IF p >= c /\ row(p) < m /\ col(p) < nn
            THEN alpha * dot(row(p), col(p)) + beta * Cm[p]
            ELSE Cm[p]]

-----------------------------------------------------------------------------
(* Pending calls and the record of the BLAS calls *)

\* a pending call of RELAPACK_dgemmt_rec on order m with pointers a, b, c
RecFrame(m, a, b, c) ==
    [kind |-> "rec", m |-> m, nn |-> m, a |-> a, b |-> b, c |-> c, i |-> 0]

\* a call of RELAPACK_dgemmt_rec2 on order m whose loop is at index i
Rec2Frame(m, a, b, c, i) ==
    [kind |-> "rec2", m |-> m, nn |-> m, a |-> a, b |-> b, c |-> c, i |-> i]

\* a pending call of dgemm on an m by nn block
GemmFrame(m, nn, a, b, c) ==
    [kind |-> "dgemm", m |-> m, nn |-> nn, a |-> a, b |-> b, c |-> c, i |-> 0]

GemvCall(trans, m, nn, a, b, incx, c) ==
    [op |-> "dgemv", ta |-> trans, tb |-> "-", m |-> m, nn |-> nn, kk |-> 0,
     a |-> a, b |-> b, inc |-> incx, c |-> c]

GemmCall(ta, tb, m, nn, kk, a, b, c) ==
    [op |-> "dgemm", ta |-> ta, tb |-> tb, m |-> m, nn |-> nn, kk |-> kk,
     a |-> a, b |-> b, inc |-> 1, c |-> c]

-----------------------------------------------------------------------------
(* RELAPACK_dgemmt *)

\* Info with the checks of n and k in the other order
Info_KBeforeN ==
    LET lower == lsame(uplo, "L")
        upper == lsame(uplo, "U")
        notransA == lsame(transA, "N")
        tranA == lsame(transA, "T")
        notransB == lsame(transB, "N")
        tranB == lsame(transB, "T")
    IN  IF ~lower /\ ~upper THEN 1
        ELSE IF ~tranA /\ ~notransA THEN 2
        ELSE IF ~tranB /\ ~notransB THEN 3
        ELSE IF k < 0 THEN 5
        ELSE IF n < 0 THEN 4
        ELSE IF ldA < MAX(1, IF notransA THEN n ELSE k) THEN 8
        ELSE IF ldB < MAX(1, IF notransB THEN k ELSE n) THEN 10
        ELSE IF ldC < MAX(1, n) THEN 13
        ELSE 0

\* the argument check: 0, or the position of the first bad argument
Info ==
    LET lower == lsame(uplo, "L")
        upper == lsame(uplo, "U")
        notransA == lsame(transA, "N")
        tranA == lsame(transA, "T")
        notransB == lsame(transB, "N")
        tranB == lsame(transB, "T")
    IN  IF ~lower /\ ~upper THEN 1
        ELSE IF ~tranA /\ ~notransA THEN 2
        ELSE IF ~tranB /\ ~notransB THEN 3
        ELSE IF n < 0 THEN 4
        ELSE IF k < 0 THEN 5
        ELSE IF ldA < MAX(1, IF notransA THEN n ELSE k) THEN 8
        ELSE IF ldB < MAX(1, IF notransB THEN k ELSE n) THEN 10
        ELSE IF ldC < MAX(1, n) THEN 13
        ELSE 0

CleanUplo == IF lsame(uplo, "L") THEN "L" ELSE "U"

CleanTrans(ch) == IF lsame(ch, "N") THEN "N" ELSE "T"

\* RELAPACK_dgemmt without the return after xerbla
RELAPACK_dgemmt_NoReturn ==
    /\ pc = "call"
    /\ xerbla' = IF Info # 0 THEN Append(xerbla, <<"DGEMMT", Info>>) ELSE xerbla
    /\ cleanuplo' = CleanUplo
    /\ cleantransA' = CleanTrans(transA)
    /\ cleantransB' = CleanTrans(transB)
    /\ stack' = <<RecFrame(n, 0, 0, 0)>>
    /\ pc' = "rec"
    /\ UNCHANGED <<inputs, C, calls>>

RELAPACK_dgemmt ==
    /\ pc = "call"
    /\ IF Info # 0
       THEN /\ xerbla' = Append(xerbla, <<"DGEMMT", Info>>)
            /\ pc' = "ret"
            /\ UNCHANGED <<cleanuplo, cleantransA, cleantransB, stack>>
       ELSE /\ cleanuplo' = CleanUplo
            /\ cleantransA' = CleanTrans(transA)
            /\ cleantransB' = CleanTrans(transB)
            /\ stack' = <<RecFrame(n, 0, 0, 0)>>
            /\ pc' = "rec"
            /\ UNCHANGED xerbla
    /\ UNCHANGED <<inputs, C, calls>>

\* the recursive kernel has returned to RELAPACK_dgemmt, which returns
Return ==
    /\ pc = "rec"
    /\ stack = <<>>
    /\ pc' = "ret"
    /\ UNCHANGED <<inputs, C, cleanuplo, cleantransA, cleantransB, stack, calls, xerbla>>

-----------------------------------------------------------------------------
(* RELAPACK_dgemmt_rec *)

\* RecBase with < for <=
RecBase_Strict(f) == f.m < MAX(CROSSOVER_DGEMMT, 1)

\* the test for the unblocked kernel
RecBase(f) == f.m <= MAX(CROSSOVER_DGEMMT, 1)

\* A_Bottom with the offsets of the two orientations exchanged
A_Bottom_Swapped(f, n1) == f.a + (IF cleantransA = "N" THEN ldA * n1 ELSE n1)

\* the bottom block of A, given the split point n1
A_Bottom(f, n1) == f.a + (IF cleantransA = "N" THEN n1 ELSE ldA * n1)

\* B_Right with the offsets of the two orientations exchanged
B_Right_Swapped(f, n1) == f.b + (IF cleantransB = "N" THEN n1 ELSE ldB * n1)

\* the right block of B, given the split point n1
B_Right(f, n1) == f.b + (IF cleantransB = "N" THEN ldB * n1 ELSE n1)

\* RecGemm writing, for the lower triangle, the top-right block
RecGemm_WrongBlock(f, n1, n2) ==
    LET C_TR == f.c + ldC * n1
    IN  IF cleanuplo = "L"
        THEN GemmFrame(n2, n1, A_Bottom(f, n1), f.b, C_TR)
        ELSE GemmFrame(n1, n2, f.a, B_Right(f, n1), C_TR)

\* RecGemm with the order of the whole problem for one of the block's sizes
RecGemm_TooWide(f, n1, n2) ==
    LET C_TR == f.c + ldC * n1
        C_BL == f.c + n1
    IN  IF cleanuplo = "L"
        THEN GemmFrame(n2, f.m, A_Bottom(f, n1), f.b, C_BL)
        ELSE GemmFrame(f.m, n2, f.a, B_Right(f, n1), C_TR)

\* the dgemm call on the off-diagonal block, given the split n1, n2
RecGemm(f, n1, n2) ==
    LET C_TR == f.c + ldC * n1
        C_BL == f.c + n1
    IN  IF cleanuplo = "L"
        THEN GemmFrame(n2, n1, A_Bottom(f, n1), f.b, C_BL)
        ELSE GemmFrame(n1, n2, f.a, B_Right(f, n1), C_TR)

\* the pending calls a call f of the recursive kernel makes, in order
RecCalls(f) ==
    IF RecBase(f)
    THEN <<Rec2Frame(f.m, f.a, f.b, f.c, 0)>>
    ELSE LET n1 == DREC_SPLIT(f.m)
             n2 == f.m - n1
             A_T == f.a
             B_L == f.b
             C_TL == f.c
             C_BR == f.c + ldC * n1 + n1
         IN  << RecFrame(n1, A_T, B_L, C_TL),
                RecGemm(f, n1, n2),
                RecFrame(n2, A_Bottom(f, n1), B_Right(f, n1), C_BR) >>

RELAPACK_dgemmt_rec ==
    /\ pc = "rec"
    /\ stack # <<>>
    /\ Head(stack).kind = "rec"
    /\ stack' = RecCalls(Head(stack)) \o Tail(stack)
    /\ UNCHANGED <<inputs, C, pc, cleanuplo, cleantransA, cleantransB, calls, xerbla>>

\* the dgemm call of a recursion level
BLAS_dgemm ==
    /\ pc = "rec"
    /\ stack # <<>>
    /\ Head(stack).kind = "dgemm"
    /\ LET f == Head(stack)
       IN  /\ C' = dgemm(cleantransA, cleantransB, f.m, f.nn, k, f.a, f.b, f.c, C)
           /\ calls' = Append(calls, GemmCall(cleantransA, cleantransB, f.m, f.nn, k, f.a, f.b, f.c))
    /\ stack' = Tail(stack)
    /\ UNCHANGED <<inputs, pc, cleanuplo, cleantransA, cleantransB, xerbla>>

-----------------------------------------------------------------------------
(* RELAPACK_dgemmt_rec2 *)

\* the increment of the vector taken from B
IncB == IF cleantransB = "N" THEN 1 ELSE ldB

\* the vector of B of iteration f.i
B_i(f) == f.b + (IF cleantransB = "N" THEN ldB * f.i ELSE f.i)

\* Rec2Lower updating the whole of column f.i
Rec2Lower_FullColumn(f) ==
    LET i == f.i
        A_0 == f.a
        C_0i == f.c + ldC * i
    IN  IF cleantransA = "N"
        THEN GemvCall(cleantransA, f.m, k, A_0, B_i(f), IncB, C_0i)
        ELSE GemvCall(cleantransA, k, f.m, A_0, B_i(f), IncB, C_0i)

\* the dgemv call of iteration f.i when the lower triangle is updated
Rec2Lower(f) ==
    LET i == f.i
        A_i == f.a + (IF cleantransA = "N" THEN i ELSE ldA * i)
        C_ii == f.c + ldC * i + i
        nmi == f.m - i
    IN  IF cleantransA = "N"
        THEN GemvCall(cleantransA, nmi, k, A_i, B_i(f), IncB, C_ii)
        ELSE GemvCall(cleantransA, k, nmi, A_i, B_i(f), IncB, C_ii)

\* Rec2Upper with the sizes of a transposed A in the order of an untransposed one
Rec2Upper_SwappedDims(f) ==
    LET i == f.i
        A_0 == f.a
        C_0i == f.c + ldC * i
        ip1 == i + 1
    IN  GemvCall(cleantransA, ip1, k, A_0, B_i(f), IncB, C_0i)

\* the dgemv call of iteration f.i when the upper triangle is updated
Rec2Upper(f) ==
    LET i == f.i
        A_0 == f.a
        C_0i == f.c + ldC * i
        ip1 == i + 1
    IN  IF cleantransA = "N"
        THEN GemvCall(cleantransA, ip1, k, A_0, B_i(f), IncB, C_0i)
        ELSE GemvCall(cleantransA, k, ip1, A_0, B_i(f), IncB, C_0i)

\* the dgemv call of iteration f.i of the loop of the unblocked kernel
Rec2Call(f) == IF cleanuplo = "L" THEN Rec2Lower(f) ELSE Rec2Upper(f)

\* Rec2Continue with <= for <
Rec2Continue_Inclusive(f) == f.i <= f.m

\* the loop condition of the unblocked kernel
Rec2Continue(f) == f.i < f.m

\* one iteration of the loop, or the loop's exit and the kernel's return
RELAPACK_dgemmt_rec2 ==
    /\ pc = "rec"
    /\ stack # <<>>
    /\ Head(stack).kind = "rec2"
    /\ LET f == Head(stack)
           g == Rec2Call(f)
       IN  IF Rec2Continue(f)
           THEN /\ C' = dgemv(g.ta, g.m, g.nn, g.a, g.b, g.inc, g.c, C)
                /\ calls' = Append(calls, g)
                /\ stack' = <<Rec2Frame(f.m, f.a, f.b, f.c, f.i + 1)>> \o Tail(stack)
           ELSE /\ stack' = Tail(stack)
                /\ UNCHANGED <<C, calls>>
    /\ UNCHANGED <<inputs, pc, cleanuplo, cleantransA, cleantransB, xerbla>>

RECURSIVE Rec2From(_, _)
\* the array the unblocked kernel f leaves when it runs on Cm from index f.i
Rec2From(f, Cm) ==
    IF Rec2Continue(f)
    THEN LET g == Rec2Call(f)
         IN  Rec2From(Rec2Frame(f.m, f.a, f.b, f.c, f.i + 1),
                      dgemv(g.ta, g.m, g.nn, g.a, g.b, g.inc, g.c, Cm))
    ELSE Cm

-----------------------------------------------------------------------------
(* The calls made of RELAPACK_dgemmt *)

AFill == [p \in 0..(Cap - 1) |-> p + 1]
BFill == [p \in 0..(Cap - 1) |-> 2 * p - 3]
CFill == [p \in 0..(Cap - 1) |-> 10 + p]

\* the least leading dimensions the argument check accepts
MinLdA == MAX(1, IF lsame(transA, "N") THEN n ELSE k)
MinLdB == MAX(1, IF lsame(transB, "N") THEN k ELSE n)
MinLdC == MAX(1, n)

InitRest ==
    /\ A = AFill
    /\ B = BFill
    /\ C = CFill
    /\ C0 = CFill
    /\ pc = "call"
    /\ cleanuplo = "-"
    /\ cleantransA = "-"
    /\ cleantransB = "-"
    /\ stack = <<>>
    /\ calls = <<>>
    /\ xerbla = <<>>

\* calls with acceptable sizes, over every scalar and threshold
InitCompute ==
    /\ uplo \in UploChars
    /\ transA \in TransAChars
    /\ transB \in TransBChars
    /\ n \in 0..MaxN
    /\ k \in 0..MaxK
    /\ alpha \in Alphas
    /\ beta \in Betas
    /\ CROSSOVER_DGEMMT \in Crossovers
    /\ ldA \in {MinLdA, MinLdA + 1}
    /\ ldB \in {MinLdB, MinLdB + 1}
    /\ ldC \in {MinLdC, MinLdC + 1}
    /\ InitRest

\* calls with any combination of bad arguments
InitArgs ==
    /\ uplo \in UploChars
    /\ transA \in TransAChars
    /\ transB \in TransBChars
    /\ n \in -1..MaxN
    /\ k \in -1..MaxK
    /\ alpha = 2
    /\ beta = 3
    /\ CROSSOVER_DGEMMT = 2
    /\ ldA \in {MinLdA - 1, MinLdA, MinLdA + 1}
    /\ ldB \in {MinLdB - 1, MinLdB, MinLdB + 1}
    /\ ldC \in {MinLdC - 1, MinLdC, MinLdC + 1}
    /\ InitRest

InitInputs == InitCompute \/ InitArgs

\* the calls, with either BLAS
Init == blasmode \in BlasModes /\ InitInputs

\* the calls, with the BLAS whose dgemv is the stated operation for every size
InitStated == blasmode = 0 /\ InitInputs

Next ==
    \/ RELAPACK_dgemmt
    \/ RELAPACK_dgemmt_rec
    \/ BLAS_dgemm
    \/ RELAPACK_dgemmt_rec2
    \/ Return

Spec == Init /\ [][Next]_vars

SpecStated == InitStated /\ [][Next]_vars

-----------------------------------------------------------------------------
(* What the caller asked for, read from the arguments as given *)

Lower == uplo \in {"L", "l"}
NoTransA == transA \in {"N", "n"}
NoTransB == transB \in {"N", "n"}

UploOk == uplo \in {"L", "l", "U", "u"}
TransAOk == transA \in {"N", "n", "T", "t"}
TransBOk == transB \in {"N", "n", "T", "t"}
LdAOk == ldA >= 1 /\ ldA >= (IF NoTransA THEN n ELSE k)
LdBOk == ldB >= 1 /\ ldB >= (IF NoTransB THEN k ELSE n)
LdCOk == ldC >= 1 /\ ldC >= n

ArgsValid ==
    UploOk /\ TransAOk /\ TransBOk /\ n >= 0 /\ k >= 0 /\ LdAOk /\ LdBOk /\ LdCOk

\* the 1-based position of the first bad argument of an invalid call
FirstViolated ==
    CASE ~UploOk -> 1
      [] UploOk /\ ~TransAOk -> 2
      [] UploOk /\ TransAOk /\ ~TransBOk -> 3
      [] UploOk /\ TransAOk /\ TransBOk /\ n < 0 -> 4
      [] UploOk /\ TransAOk /\ TransBOk /\ n >= 0 /\ k < 0 -> 5
      [] UploOk /\ TransAOk /\ TransBOk /\ n >= 0 /\ k >= 0 /\ ~LdAOk -> 8
      [] UploOk /\ TransAOk /\ TransBOk /\ n >= 0 /\ k >= 0 /\ LdAOk /\ ~LdBOk -> 10
      [] OTHER -> 13

\* how many of the eight constraints the arguments violate
NumViolated ==
    Cardinality({j \in 1..8 :
        \/ j = 1 /\ ~UploOk
        \/ j = 2 /\ ~TransAOk
        \/ j = 3 /\ ~TransBOk
        \/ j = 4 /\ n < 0
        \/ j = 5 /\ k < 0
        \/ j = 6 /\ ~LdAOk
        \/ j = 7 /\ ~LdBOk
        \/ j = 8 /\ ~LdCOk})

\* the offsets of a rows by cols block at offset off, leading dimension ld
Block(off, rows, cols, ld) ==
    {off + r + q * ld : r \in 0..(rows - 1), q \in 0..(cols - 1)}

\* element (r, c) of the n by n matrix C
At(r, c) == r + c * ldC

InTriangle(r, c) == IF Lower THEN r >= c ELSE r <= c

\* the offsets in C of the selected triangle, of the strictly opposite one
Triangle == {At(e[1], e[2]) : e \in {x \in (0..(n - 1)) \X (0..(n - 1)) : InTriangle(x[1], x[2])}}
Opposite == {At(e[1], e[2]) : e \in {x \in (0..(n - 1)) \X (0..(n - 1)) : ~InTriangle(x[1], x[2])}}

\* the logical extents of A, B and C in their arrays
ExtentA == IF NoTransA THEN Block(0, n, k, ldA) ELSE Block(0, k, n, ldA)
ExtentB == IF NoTransB THEN Block(0, k, n, ldB) ELSE Block(0, n, k, ldB)
ExtentC == Block(0, n, n, ldC)

OpA(r, l) == IF NoTransA THEN A[r + l * ldA] ELSE A[l + r * ldA]
OpB(l, c) == IF NoTransB THEN B[l + c * ldB] ELSE B[c + l * ldB]

\* element (r, c) of alpha*op(A)*op(B) + beta*C0
Dense(r, c) ==
    alpha * SumTo([l \in 0..(k - 1) |-> OpA(r, l) * OpB(l, c)], k) + beta * C0[At(r, c)]

(* The footprint of a BLAS call g of the record *)

\* the offsets of C the call has as output operand
OutRegion(g) ==
    IF g.op = "dgemv"
    THEN Block(g.c, IF g.ta = "N" THEN g.m ELSE g.nn, 1, ldC)
    ELSE Block(g.c, g.m, g.nn, ldC)

\* the offsets of A the call has as operand
ARegion(g) ==
    IF g.op = "dgemv"
    THEN Block(g.a, g.m, g.nn, ldA)
    ELSE IF g.ta = "N" THEN Block(g.a, g.m, g.kk, ldA) ELSE Block(g.a, g.kk, g.m, ldA)

\* the offsets of B the call has as operand
BRegion(g) ==
    IF g.op = "dgemv"
    THEN {g.b + l * g.inc : l \in 0..((IF g.ta = "N" THEN g.nn ELSE g.m) - 1)}
    ELSE IF g.tb = "N" THEN Block(g.b, g.kk, g.nn, ldB) ELSE Block(g.b, g.nn, g.kk, ldB)

\* the dimension the call sums over
Contraction(g) ==
    IF g.op = "dgemm" THEN g.kk ELSE IF g.ta = "N" THEN g.nn ELSE g.m

Issued == {calls[j] : j \in 1..Len(calls)}
NumDgemv == Cardinality({j \in 1..Len(calls) : calls[j].op = "dgemv"})
NumDgemm == Cardinality({j \in 1..Len(calls) : calls[j].op = "dgemm"})

Returned == pc = "ret"

-----------------------------------------------------------------------------
\* C1: after a valid call, every element of the selected triangle, diagonal
\* included, equals alpha * sum_l op(A)[r,l]*op(B)[l,c] + beta * C0[r,c],
\* the value of the full dense product restricted to that triangle.
C1_TriangleIsDenseProduct ==
    (Returned /\ ArgsValid) =>
        \A r \in 0..(n - 1), c \in 0..(n - 1) :
            InTriangle(r, c) => C[At(r, c)] = Dense(r, c)

C1_Witness ==
    /\ Returned /\ ArgsValid
    /\ n = MaxN /\ k = MaxK /\ CROSSOVER_DGEMMT = 0
    /\ transA = "T" /\ transB = "t" /\ uplo = "u" /\ beta = 3 /\ alpha = 2
    /\ NumDgemm >= 2
    /\ C[At(0, n - 1)] = Dense(0, n - 1)
    /\ C[At(0, n - 1)] # C0[At(0, n - 1)]

\* C2: in a valid call no BLAS call has an element strictly outside the
\* selected triangle in its output region, and every element of C outside
\* the selected triangle keeps its value from before the call.
C2_OppositeTriangleUntouched ==
    ArgsValid =>
        /\ \A g \in Issued : OutRegion(g) \cap Opposite = {}
        /\ \A p \in DOMAIN C : p \notin Triangle => C[p] = C0[p]

C2_Witness ==
    /\ Returned /\ ArgsValid
    /\ n = MaxN /\ CROSSOVER_DGEMMT = 2 /\ Lower /\ beta = 0 /\ k > 0
    /\ NumDgemm = 1
    /\ \A p \in Triangle : C[p] # C0[p]
    /\ \A p \in Opposite : C[p] = C0[p]

\* C3: an invalid call invokes xerbla exactly once, with "DGEMMT" and the
\* position of the first violated constraint in the order 1, 2, 3, 4, 5, 8,
\* 10, 13; a valid call never invokes xerbla.
C3_XerblaFirstViolation ==
    /\ pc = "call" => xerbla = <<>>
    /\ pc # "call" =>
          xerbla = IF ArgsValid THEN <<>> ELSE << <<"DGEMMT", FirstViolated>> >>

C3_Witness ==
    /\ Returned
    /\ NumViolated >= 4
    /\ UploOk /\ TransAOk /\ ~TransBOk /\ k < 0 /\ ~LdCOk
    /\ xerbla = << <<"DGEMMT", 3>> >>

\* C4: a call whose validation fails issues no BLAS call, never enters the
\* recursive kernel and leaves all of C as it was; a call whose validation
\* succeeds has, when it returns, every element of the selected triangle in
\* the output region of a BLAS call issued and holding the updated value.
C4_AllOrNothing ==
    /\ ~ArgsValid =>
          /\ calls = <<>>
          /\ stack = <<>>
          /\ pc \in {"call", "ret"}
          /\ C = C0
    /\ (ArgsValid /\ Returned) =>
          /\ xerbla = <<>>
          /\ \A p \in Triangle : \E g \in Issued : p \in OutRegion(g)
          /\ \A r \in 0..(n - 1), c \in 0..(n - 1) :
                InTriangle(r, c) => C[At(r, c)] = Dense(r, c)

C4_Witness ==
    /\ Returned /\ ~ArgsValid
    /\ UploOk /\ TransAOk /\ TransBOk /\ n = MaxN /\ k = MaxK /\ LdAOk /\ LdBOk
    /\ ldC = n - 1
    /\ xerbla # <<>>
    /\ C = C0

\* C5: a valid call with k = 0 ends with every element of the selected
\* triangle equal to beta times its value before the call and every other
\* element unchanged, and every BLAS call it issues sums over a dimension
\* of 0.
C5_ZeroKScalesByBeta ==
    (ArgsValid /\ k = 0) =>
        /\ \A g \in Issued : Contraction(g) = 0
        /\ Returned =>
              \A p \in DOMAIN C :
                  C[p] = IF p \in Triangle THEN beta * C0[p] ELSE C0[p]

C5_Witness ==
    /\ Returned /\ ArgsValid /\ k = 0
    /\ n = MaxN /\ beta = 3 /\ CROSSOVER_DGEMMT = 2 /\ transA = "T"
    /\ NumDgemm = 1 /\ NumDgemv = n
    /\ \A p \in Triangle : C[p] = 3 * C0[p] /\ C[p] # C0[p]

\* C6: a valid call with n = 0 passes validation, issues no dgemm and no
\* dgemv call, does not invoke xerbla and leaves C unchanged.
C6_ZeroNIsNoOp ==
    (ArgsValid /\ n = 0) =>
        /\ calls = <<>>
        /\ xerbla = <<>>
        /\ C = C0
        /\ pc # "call" => cleanuplo \in {"L", "U"}

C6_Witness ==
    /\ Returned /\ ArgsValid /\ n = 0 /\ k = MaxK
    /\ calls = <<>> /\ C = C0 /\ cleanuplo = "U"

\* C7: the result does not depend on the recursion threshold: whatever the
\* threshold, the array C a valid call leaves is the one the unblocked
\* kernel alone leaves on the same input, in both triangles.
C7_ThresholdIndependent ==
    (Returned /\ ArgsValid) => C = Rec2From(Rec2Frame(n, 0, 0, 0, 0), C0)

C7_Witness ==
    /\ Returned /\ ArgsValid
    /\ n = MaxN /\ k = MaxK /\ CROSSOVER_DGEMMT = 0 /\ Lower /\ NoTransA /\ NoTransB
    /\ NumDgemm = 3
    /\ C # C0
    /\ C = Rec2From(Rec2Frame(n, 0, 0, 0, 0), C0)

\* how many of the BLAS calls issued have offset p of C in their output region
TimesWritten(p) == Cardinality({j \in 1..Len(calls) : p \in OutRegion(calls[j])})

\* C8: in a valid call the output regions of the dgemv and dgemm calls lie
\* in the selected triangle and are pairwise disjoint, and when the call
\* returns each element of the selected triangle is in the output region of
\* exactly one of them.
C8_ExactlyOnce ==
    ArgsValid =>
        /\ \A g \in Issued : OutRegion(g) \subseteq Triangle
        /\ \A p \in Triangle : TimesWritten(p) <= 1
        /\ Returned => \A p \in Triangle : TimesWritten(p) = 1

C8_Witness ==
    /\ Returned /\ ArgsValid
    /\ n = MaxN /\ CROSSOVER_DGEMMT = 2 /\ ~Lower
    /\ NumDgemm = 1 /\ NumDgemv = n
    /\ \A p \in Triangle : TimesWritten(p) = 1
    /\ \E g \in Issued : g.op = "dgemm" /\ Cardinality(OutRegion(g)) = 4

(* The views of a pending call f *)

ViewA(f) == IF NoTransA THEN Block(f.a, f.m, k, ldA) ELSE Block(f.a, k, f.m, ldA)
ViewB(f) == IF NoTransB THEN Block(f.b, k, f.nn, ldB) ELSE Block(f.b, f.nn, k, ldB)
ViewC(f) == Block(f.c, f.m, f.nn, ldC)

Pending == 1..Len(stack)
Kernels == {j \in Pending : stack[j].kind \in {"rec", "rec2"}}

\* C9: in a valid call every operand of a dgemm or dgemv call and every view
\* passed to a kernel lies inside the logical extents of A, B and C, the
\* blocks of A, of B and of C of two pending kernel calls do not overlap,
\* and no two pending calls share an element of C.
C9_ViewsInExtents ==
    ArgsValid =>
        /\ \A g \in Issued :
              /\ ARegion(g) \subseteq ExtentA
              /\ BRegion(g) \subseteq ExtentB
              /\ OutRegion(g) \subseteq ExtentC
        /\ \A j \in Pending :
              /\ ViewA(stack[j]) \subseteq ExtentA
              /\ ViewB(stack[j]) \subseteq ExtentB
              /\ ViewC(stack[j]) \subseteq ExtentC
        /\ \A i \in Kernels, j \in Kernels :
              i < j => /\ ViewA(stack[i]) \cap ViewA(stack[j]) = {}
                       /\ ViewB(stack[i]) \cap ViewB(stack[j]) = {}
        /\ \A i \in Pending, j \in Pending :
              i < j => ViewC(stack[i]) \cap ViewC(stack[j]) = {}

C9_Witness ==
    /\ ArgsValid /\ pc = "rec"
    /\ n = MaxN /\ k = MaxK /\ CROSSOVER_DGEMMT = 0
    /\ transA = "T" /\ transB = "t" /\ ldA = k + 1 /\ ldB = n + 1 /\ ldC = n + 1
    /\ Len(stack) = 5
    /\ Cardinality(Kernels) = 3
    /\ stack[1].kind = "rec2" /\ stack[1].i = 1
    /\ calls # <<>>
    /\ ViewA(stack[5]) # {} /\ ViewB(stack[3]) # {}

(* A measure of the work left *)

Weight(f) ==
    CASE f.kind = "rec" -> IF f.m <= 0 THEN 2 ELSE 5 * f.m - 2
      [] f.kind = "rec2" -> f.m - f.i + 1
      [] OTHER -> 1

RECURSIVE TotalWeight(_)
TotalWeight(fs) == IF fs = <<>> THEN 0 ELSE Weight(Head(fs)) + TotalWeight(Tail(fs))

Measure ==
    CASE pc = "call" -> 5 * (IF n > 0 THEN n ELSE 0) + 4
      [] pc = "rec" -> 1 + TotalWeight(stack)
      [] OTHER -> 0

\* the recursive kernel is about to run on an order above the threshold
Splits ==
    /\ pc = "rec" /\ stack # <<>> /\ Head(stack).kind = "rec"
    /\ Head(stack).m > CROSSOVER_DGEMMT /\ Head(stack).m > 1

\* the recursive kernel is about to run on an order at or below the threshold
Bottoms ==
    /\ pc = "rec" /\ stack # <<>> /\ Head(stack).kind = "rec"
    /\ ~(Head(stack).m > CROSSOVER_DGEMMT /\ Head(stack).m > 1)

\* the split point of every order from 2 to MaxOrder leaves two positive
\* orders below it
SplitShrinks ==
    \A m \in 2..MaxOrder : 1 <= DREC_SPLIT(m) /\ 1 <= m - DREC_SPLIT(m) /\ DREC_SPLIT(m) < m

\* C10: every call terminates: each step lowers a measure of the work left
\* that is never negative; a kernel call on an order above the threshold
\* splits it into n1 and n2 with 1 <= n1 < n, 1 <= n2 < n and n1 + n2 = n
\* and recurses on these, a kernel call at or below the threshold runs the
\* unblocked kernel, and a valid call has issued exactly n dgemv calls when
\* it returns.
C10_Terminates ==
    [][ /\ Measure' < Measure
        /\ SplitShrinks
        /\ Measure' >= 0
        /\ Splits =>
              /\ Len(stack') = Len(stack) + 2
              /\ stack'[1].kind = "rec" /\ stack'[2].kind = "dgemm" /\ stack'[3].kind = "rec"
              /\ 1 <= stack'[1].m /\ stack'[1].m < Head(stack).m
              /\ 1 <= stack'[3].m /\ stack'[3].m < Head(stack).m
              /\ stack'[1].m + stack'[3].m = Head(stack).m
        /\ Bottoms =>
              /\ Len(stack') = Len(stack)
              /\ stack'[1].kind = "rec2" /\ stack'[1].m = Head(stack).m
        /\ (pc' = "ret" /\ ArgsValid) => NumDgemv' = n
      ]_vars

C10_Witness ==
    /\ Returned /\ ArgsValid
    /\ n = MaxN /\ CROSSOVER_DGEMMT = 0
    /\ NumDgemv = n /\ NumDgemm = n - 1
    /\ Measure = 0

=============================================================================
